---- MODULE Spec2Model ----
(***************************************************************************)
(* LyricsOverlay: the runtime coordinator (runtime.rs), the Spotify        *)
(* client with its OAuth callback listener (spotify.rs), the lyrics        *)
(* fetcher with its on-disk cache (lyrics_fetch.rs), the LRC parser        *)
(* (lyrics_parser.rs) and the UI message loop (overlay.rs).                *)
(***************************************************************************)
EXTENDS Integers, Sequences, FiniteSets, TLC

(***************************************************************************)
(* Bounds of the model.                                                    *)
(***************************************************************************)
\* Clicks on "Connect Spotify" the user makes in one run, and requests that
\* reach /callback during one authenticate call.
MaxClicks == 2
MaxCallbacks == 1
\* The same two, for the runs that look at the callback listener.
ListenerClicks == 1
ListenerCallbacks == 2
\* The same two, for the runs that fill the inbound channel.
BurstClicks == 3
BurstCallbacks == 1
\* Intents already in the inbound channel when the coordinator starts, for
\* the runs that drive the coordinator directly.
DirectQueue == 2
\* Lines of the texts handed to parse_lrc
MaxLines == 3
\* Milliseconds the wall clock advances, largest progress_ms of a snapshot
\* and number of events that reach the UI, in the runs that drive the UI
\* directly
MaxTime == 2
MaxProgress == 1
MaxEvents == 4
\* Largest value of a numeric field of the tags handed to parse_time_tag
MaxField == 11
\* Capacity of each of the two mpsc channels (fixed when they are created).
ChanCap == 2

(***************************************************************************)
(* Text helpers.  A text is a sequence of one-character strings.           *)
(***************************************************************************)
\* char::is_whitespace, over the characters the model uses
IsWs(c) == c \in {" ", "\t", "\r"}

RECURSIVE TrimStart(_)
TrimStart(s) ==
    IF s = <<>> THEN <<>>
    ELSE IF IsWs(Head(s)) THEN TrimStart(Tail(s)) ELSE s

RECURSIVE TrimEnd(_)
TrimEnd(s) ==
    IF s = <<>> THEN <<>>
    ELSE IF IsWs(s[Len(s)]) THEN TrimEnd(SubSeq(s, 1, Len(s) - 1)) ELSE s

\* str::trim
Trim_none(s) == s

Trim(s) == TrimEnd(TrimStart(s))

\* str::find(char): the 1-based position of the first c in s, 0 when absent
RECURSIVE FindFrom(_, _, _)
FindFrom(s, c, i) ==
    IF i > Len(s) THEN 0
    ELSE IF s[i] = c THEN i ELSE FindFrom(s, c, i + 1)

Find(s, c) == FindFrom(s, c, 1)

\* str::lines: split at "\n"; a final empty piece is not a line
RECURSIVE StrLines(_)
StrLines(s) ==
    IF s = <<>> THEN <<>>
    ELSE LET nl == Find(s, "\n")
         IN  IF nl = 0 THEN <<s>>
             ELSE <<SubSeq(s, 1, nl - 1)>> \o StrLines(SubSeq(s, nl + 1, Len(s)))

Digits == {"0", "1", "2", "3", "4", "5", "6", "7", "8", "9"}

DigitVal(c) ==
    CASE c = "0" -> 0 [] c = "1" -> 1 [] c = "2" -> 2 [] c = "3" -> 3
      [] c = "4" -> 4 [] c = "5" -> 5 [] c = "6" -> 6 [] c = "7" -> 7
      [] c = "8" -> 8 [] c = "9" -> 9

RECURSIVE DigitsVal(_, _)
DigitsVal(s, acc) ==
    IF s = <<>> THEN acc ELSE DigitsVal(Tail(s), acc * 10 + DigitVal(Head(s)))

\* str::parse::<u64>: an optional "+", then one or more decimal digits.
\* -1 stands for Err.  (The texts of the model are too short to exceed u64.)
ParseU64(s) ==
    LET body == IF s # <<>> /\ Head(s) = "+" THEN Tail(s) ELSE s
    IN  IF body = <<>> THEN -1
        ELSE IF \A i \in 1..Len(body) : body[i] \in Digits
             THEN DigitsVal(body, 0)
             ELSE -1

(***************************************************************************)
(* lyrics_parser.rs                                                        *)
(***************************************************************************)
\* minutes * 60_000 + secs * 1_000 + centis * 10 (lyrics_parser.rs:63)
TagMillis_thousandths(minutes, secs, centis) ==
    minutes * 60000 + secs * 1000 + centis

TagMillis(minutes, secs, centis) ==
    minutes * 60000 + secs * 1000 + centis * 10

\* parse_time_tag: mm:ss.xx, mm:ss:xx or mm:ss, in milliseconds; -1 is None
parse_time_tag(tag) ==
    LET c1 == Find(tag, ":")
    IN  IF c1 = 0 THEN -1
        ELSE
        LET minutes  == ParseU64(Trim(SubSeq(tag, 1, c1 - 1)))
            sec_part == SubSeq(tag, c1 + 1, Len(tag))
            dot      == Find(sec_part, ".")
            colon    == Find(sec_part, ":")
            cut      == IF dot # 0 THEN dot ELSE colon
            secs_str == IF cut # 0 THEN SubSeq(sec_part, 1, cut - 1) ELSE sec_part
            centis_str == IF cut # 0 THEN SubSeq(sec_part, cut + 1, Len(sec_part))
                          ELSE <<"0">>
            secs     == ParseU64(Trim(secs_str))
            centis_p == ParseU64(Trim(centis_str))
            centis   == IF centis_p = -1 THEN 0 ELSE centis_p
        IN  IF minutes = -1 THEN -1
            ELSE IF secs = -1 THEN -1
            ELSE TagMillis(minutes, secs, centis)

\* strip_empty_lines && text.is_empty() (lyrics_parser.rs:25)
StripsLine_never(strip_empty_lines, text) == FALSE

StripsLine(strip_empty_lines, text) == strip_empty_lines /\ text = <<>>

\* The tag-stripping loop of parse_lrc on one trimmed line: the lines it
\* pushes (none or one).
RECURSIVE StripTags(_, _)
StripTags(rest, strip_empty_lines) ==
    IF rest = <<>> \/ Head(rest) # "[" THEN <<>>
    ELSE LET close == Find(rest, "]")
         IN  IF close = 0 THEN <<>>
             ELSE LET tag  == SubSeq(rest, 2, close - 1)
                      rem  == Trim(SubSeq(rest, close + 1, Len(rest)))
                      ms   == parse_time_tag(tag)
                  IN  IF ms # -1
                      THEN IF StripsLine(strip_empty_lines, rem) THEN <<>>
                           ELSE <<[time_ms |-> ms, text |-> rem]>>
                      ELSE StripTags(rem, strip_empty_lines)

RECURSIVE CollectLines(_, _)
CollectLines(raws, strip_empty_lines) ==
    IF raws = <<>> THEN <<>>
    ELSE LET raw == Trim(Head(raws))
         IN  (IF raw = <<>> THEN <<>> ELSE StripTags(raw, strip_empty_lines))
             \o CollectLines(Tail(raws), strip_empty_lines)

\* Vec::sort_by_key is a stable sort: an element stays behind every earlier
\* element whose key is less than or equal to its own
KeyLe_strict(a, b) == a < b

KeyLe(a, b) == a <= b

\* insertion after the last key <= the new one
RECURSIVE InsertByKey(_, _)
InsertByKey(sorted, l) ==
    IF sorted = <<>> THEN <<l>>
    ELSE IF KeyLe(sorted[Len(sorted)].time_ms, l.time_ms) THEN Append(sorted, l)
    ELSE Append(InsertByKey(SubSeq(sorted, 1, Len(sorted) - 1), l),
                sorted[Len(sorted)])

RECURSIVE SortByKey(_)
SortByKey(ls) ==
    IF ls = <<>> THEN <<>>
    ELSE InsertByKey(SortByKey(SubSeq(ls, 1, Len(ls) - 1)), ls[Len(ls)])

parse_lrc(content, strip_empty_lines) ==
    SortByKey(CollectLines(StrLines(content), strip_empty_lines))

\* LyricPosition
BeforeStart == [kind |-> "BeforeStart"]
Line(i) == [kind |-> "Line", i |-> i]
AfterEnd == [kind |-> "AfterEnd"]

\* line.time_ms <= elapsed_ms (lyrics_parser.rs:80)
LineStarted_strict(time_ms, elapsed_ms) == time_ms < elapsed_ms

LineStarted(time_ms, elapsed_ms) == time_ms <= elapsed_ms

\* the for loop of find_current_index from the line at (1-based) position k,
\* Line carrying the 0-based index of enumerate()
RECURSIVE FindLoop(_, _, _, _)
FindLoop(lyrics, elapsed_ms, k, lyric_pos) ==
    IF k > Len(lyrics) THEN AfterEnd
    ELSE IF LineStarted(lyrics[k].time_ms, elapsed_ms)
         THEN FindLoop(lyrics, elapsed_ms, k + 1, Line(k - 1))
         ELSE lyric_pos

find_current_index(lyrics, elapsed_ms) ==
    IF lyrics = <<>> THEN BeforeStart
    ELSE FindLoop(lyrics, elapsed_ms, 1, BeforeStart)


(***************************************************************************)
(* Values.  Option<T> is a sequence: <<>> is None and <<x>> is Some(x).    *)
(***************************************************************************)
Some(x) == <<x>>
IsSome(o) == o # <<>>
Unwrap(o) == o[1]

\* Settings as loaded at start-up (settings.rs): the fields the core reads
SettingsSet ==
    [client_id : {"", "id"}, client_secret : {"", "secret"},
     caching_enabled : BOOLEAN]

\* CsrfToken::new_random draws a fresh secret for every flow; "stale" stands
\* for any other string a request may carry as its state
CsrfTokens == {"csrf"}
StateStrings == CsrfTokens \cup {"stale"}
\* access tokens the provider may hand out
Tokens == {"tok1", "tok2"}

\* Track items the currently-playing endpoint may return (spotify.rs Track)
TrackA ==
    [name |-> "song", id |-> "id1", duration_ms |-> 1000,
     artists |-> <<"artist">>, album |-> "album"]
TrackEmpty ==
    [name |-> "", id |-> "id2", duration_ms |-> 0,
     artists |-> <<"">>, album |-> ""]
TrackNoArtist ==
    [name |-> "song", id |-> "id3", duration_ms |-> 1000,
     artists |-> <<>>, album |-> "album"]
TrackItems == {TrackA, TrackEmpty, TrackNoArtist}

\* CurrentlyPlayingResponse bodies whose currently_playing_type is "track"
Snapshots ==
    [currently_playing_type : {"track"},
     item : {<<>>} \cup {Some(t) : t \in TrackItems},
     progress_ms : {0}]

\* Decodable bodies of the currently-playing endpoint: tracks, and an episode
PlayingBodies ==
    Snapshots \cup {[currently_playing_type |-> "episode", item |-> <<>>,
                     progress_ms |-> 0]}

\* What the currently-playing request can come back with: no response at
\* all, 204 without a body, 200 with a body that does not decode (body <<>>),
\* 200 with a decodable body.
PollResponses ==
    {[sent |-> FALSE, status |-> 0, body |-> <<>>],
     [sent |-> TRUE, status |-> 204, body |-> <<>>],
     [sent |-> TRUE, status |-> 200, body |-> <<>>]}
    \cup {[sent |-> TRUE, status |-> 200, body |-> Some(b)] : b \in PlayingBodies}

\* synced_lyrics texts the lyrics provider may return
RawLyricsA == <<"[", "0", ":", "1", "]", "a", "\n", "[", "0", ":", "0", "]", "b">>
RawLyricsB == <<"[", "0", ":", "2", "]">>
RawLyrics == {RawLyricsA, RawLyricsB}

(***************************************************************************)
(* spotify.rs: CurrentlyPlayingResponse and Track accessors                *)
(***************************************************************************)
is_track(response) ==
    response.currently_playing_type = "track" /\ IsSome(response.item)

\* Track::get_artist is artists.first().unwrap(): it panics on no artist
get_artist_panics(response) == Unwrap(response.item).artists = <<>>

(***************************************************************************)
(* lyrics_fetch.rs: LyricsRequestInfo                                      *)
(***************************************************************************)
\* from_spotify_response on a response that is a track with an artist.
\* duration_sec is duration_ms / 1000.0, kept here in thousandths of a second.
from_spotify_response(response) ==
    LET track == Unwrap(response.item)
    IN  [spotify_id   |-> Some(track.id),
         duration_sec |-> track.duration_ms,
         track_name   |-> track.name,
         artist_name  |-> track.artists[1],
         album_name   |-> track.album]

\* get_track_identifier: "{track_name}-{artist_name}.{duration_sec}"
get_track_identifier(req) == <<req.track_name, "-", req.artist_name, ".", req.duration_sec>>

Requests == {from_spotify_response([currently_playing_type |-> "track",
                                    item |-> Some(t), progress_ms |-> 0]) :
                 t \in {TrackA, TrackEmpty}}
Keys == {get_track_identifier(r) : r \in Requests}

\* The answers of the lyrics provider to a request (LRCOkResponse)
LrcResponses(req) ==
    {[id |-> 7, track_name |-> req.track_name, artist_name |-> req.artist_name,
      album_name |-> req.album_name, duration_sec |-> req.duration_sec,
      instrumental |-> FALSE, synced_lyrics |-> raw] : raw \in RawLyrics}

\* SongWithLyrics::new
SongWithLyrics(lyrics, req) ==
    [lyrics |-> lyrics, duration_sec |-> req.duration_sec,
     track_name |-> req.track_name, artist_name |-> req.artist_name,
     album_name |-> req.album_name]

(***************************************************************************)
(* Messages (MessageToRT, MessageToUI)                                     *)
(***************************************************************************)
Authenticate == [kind |-> "Authenticate"]
GetCurrentTrack == [kind |-> "GetCurrentTrack"]
GetLyrics(req) == [kind |-> "GetLyrics", request |-> req]

Authenticated == [kind |-> "Authenticated"]
CurrentlyPlaying(data) == [kind |-> "CurrentlyPlaying", data |-> data]
GotLyrics(song) == [kind |-> "GotLyrics", song |-> song]
DisplayError(err) == [kind |-> "DisplayError", err |-> err]

Ok(v) == [ok |-> TRUE, val |-> v]
Err(e) == [ok |-> FALSE, err |-> e]


(***************************************************************************)
(* State                                                                   *)
(***************************************************************************)
VARIABLES
    settings,           \* Arc<Settings>, read-only after start-up
    rt_queue,           \* mpsc channel UI -> runtime (MessageToRT)
    ui_queue,           \* mpsc channel runtime -> UI (MessageToUI)
    rt_pc,              \* where start_runtime is
    cur,                \* the intent start_runtime is handling
    res,                \* Option<Result<MessageToUI, RuntimeError>> of the handler
    access_token,       \* SpotifyClient::access_token
    session,            \* locals of SpotifyClient::authenticate and its listener
    cache,              \* the cache folder: per track identifier, .meta and lyrics.lrc
    ui_pc,              \* "run", or "panicked" once the UI thread has panicked
    is_auth,            \* LyricsAppUI fields
    error_string,
    currently_playing,
    current_song_with_lyrics,
    clicks,             \* clicks on "Connect Spotify" so far
    net,                \* HTTP requests in flight, each with the intent that issued it
    hist,               \* history: what was enqueued, started, emitted, observed
    lp,                 \* a caller of lyrics_parser.rs: its text, timeline, position
    time_of_last_req,   \* LyricsAppUI::time_of_last_req, an Instant
    now,                \* the wall clock (Instant::now()), in milliseconds
    shown               \* what display_lyrics computed at the last frame it drew

vars == <<settings, rt_queue, ui_queue, rt_pc, cur, res, access_token, session,
          cache, ui_pc, is_auth, error_string, currently_playing,
          current_song_with_lyrics, clicks, net, hist, lp, time_of_last_req,
          now, shown>>

NoIntent == [n |-> 0, msg |-> [kind |-> "None"]]

\* no frame with lyrics drawn yet
NoFrame == [current_ms |-> <<>>, prev_ms |-> <<>>, at |-> 0, since |-> 0,
            snapshot |-> <<>>]

\* lyrics_parser.rs not being called on its own
NoCall == [pc |-> "none"]

\* A file of the cache folder: json is <<>> for an empty file, <<doc>> for
\* a file holding the JSON text of doc.
NoFile == [exists |-> FALSE, json |-> <<>>]
EmptyFile == [exists |-> TRUE, json |-> <<>>]
FileOf(doc) == [exists |-> TRUE, json |-> Some(doc)]

\* The locals of one authenticate call (spotify.rs:186-199) and the ephemeral
\* listener.  tx_content / tx_shutdown: whether the Option in the mutex still
\* holds its sender.  reqs: the /callback requests, in order of arrival.
NoSession ==
    [csrf |-> "", tx_content |-> FALSE, tx_shutdown |-> FALSE,
     rx_content |-> <<>>, rx_shutdown |-> FALSE, listener |-> "none",
     reqs |-> <<>>, browser |-> FALSE, exchanges |-> 0,
     n_content |-> 0, n_shutdown |-> 0]

Init ==
    /\ settings \in SettingsSet
    /\ rt_queue = <<>>
    /\ ui_queue = <<>>
    /\ rt_pc = "recv"
    /\ cur = NoIntent
    /\ res = <<>>
    /\ access_token = <<>>
    /\ session = NoSession
    /\ cache = [k \in Keys |-> [meta |-> NoFile, lrc |-> NoFile]]
    /\ ui_pc = "run"
    /\ is_auth = FALSE
    /\ error_string = <<>>
    /\ currently_playing = <<>>
    /\ current_song_with_lyrics = <<>>
    /\ clicks = 0
    /\ net = {}
    /\ hist = [enq |-> <<>>, started |-> 0, out |-> <<>>, flows |-> 0,
               listeners |-> 0, poll |-> "", resp |-> <<>>, check |-> <<>>,
               tried |-> <<>>,
               store |-> <<>>]
    /\ lp = NoCall
    /\ now = 0
    /\ time_of_last_req = now
    /\ shown = NoFrame

\* A panic of the UI thread unwinds eframe::run_native on the main thread and
\* ends the process: nothing runs after it.
Running == ui_pc = "run"

\* start_runtime has panicked: its task is gone and both channel ends it
\* held are dropped.
RtPanicked == rt_pc = "panicked"


ui_vars == <<ui_pc, is_auth, error_string, currently_playing,
             current_song_with_lyrics, clicks, time_of_last_req>>

(***************************************************************************)
(* runtime.rs: start_runtime                                               *)
(***************************************************************************)
\* rx.recv().await is reached only between two handlers: every handler is
\* awaited inside the loop body, none is spawned.
CanRecv_spawned == rt_pc # "panicked"
CanRecv == rt_pc = "recv"

\* A tokio mpsc channel is first-in first-out: recv takes the oldest message.
RecvIndex_newest(q) == Len(q)
RecvIndex(q) == 1
RecvMsg(q) == q[RecvIndex(q)]
RecvRest(q) == SubSeq(q, 1, RecvIndex(q) - 1) \o SubSeq(q, RecvIndex(q) + 1, Len(q))

Dispatch(kind) ==
    CASE kind = "Authenticate" -> "authenticate"
      [] kind = "GetCurrentTrack" -> "get_current_track"
      [] kind = "GetLyrics" -> "get_lyrics"

\* while let Some(msg) = rx.recv().await { match msg { ... } }
start_runtime_recv ==
    /\ Running /\ CanRecv /\ rt_queue # <<>>
    /\ cur' = [n |-> hist.started + 1, msg |-> RecvMsg(rt_queue)]
    /\ rt_queue' = RecvRest(rt_queue)
    /\ rt_pc' = Dispatch(RecvMsg(rt_queue).kind)
    /\ hist' = [hist EXCEPT !.started = @ + 1]
    /\ UNCHANGED <<now, shown, lp, settings, ui_queue, res, access_token, session, cache, net>>
    /\ UNCHANGED ui_vars

\* match res { Ok(message) => message, Err(x) => DisplayError(format!("{:?}", x)) }
EventOf(r) == IF r.ok THEN r.val ELSE DisplayError(r.err)

\* tx.send(..).await.unwrap(): waits while the channel is full.  The send
\* fails only when the UI's receiver is gone, that is after the process ended.
start_runtime_send ==
    /\ Running /\ rt_pc = "send" /\ IsSome(res)
    /\ Len(ui_queue) < ChanCap
    /\ ui_queue' = Append(ui_queue, EventOf(Unwrap(res)))
    /\ hist' = [hist EXCEPT !.out = Append(@, [n |-> cur.n, msg |-> cur.msg,
                                               ev |-> EventOf(Unwrap(res)).kind])]
    /\ rt_pc' = "recv"
    /\ cur' = NoIntent
    /\ res' = <<>>
    /\ session' = NoSession
    /\ UNCHANGED <<now, shown, lp, settings, rt_queue, access_token, cache, net>>
    /\ UNCHANGED ui_vars

(***************************************************************************)
(* spotify.rs: SpotifyClient::authenticate, with runtime.rs: authenticate  *)
(***************************************************************************)
\* spotify.rs:173-178, "" when both credentials are present
CredentialError_idonly(s) ==
    IF s.client_id = "" THEN "MissingClientId" ELSE ""
CredentialError(s) ==
    IF s.client_id = "" THEN "MissingClientId"
    ELSE IF s.client_secret = "" THEN "MissingClientSecret"
    ELSE ""

\* Entry up to the creation of the two one-shot channels (spotify.rs:169-199)
authenticate_begin ==
    /\ Running /\ rt_pc = "authenticate"
    /\ \E csrf \in CsrfTokens :
         IF CredentialError(settings) # ""
         THEN /\ res' = Some(Err(CredentialError(settings)))
              /\ rt_pc' = "send"
              /\ session' = NoSession
              /\ hist' = hist
         ELSE /\ res' = res
              /\ rt_pc' = "open_browser"
              /\ session' = [NoSession EXCEPT !.csrf = csrf,
                                              !.tx_content = TRUE,
                                              !.tx_shutdown = TRUE]
              /\ hist' = [hist EXCEPT !.flows = @ + 1]
    /\ UNCHANGED <<now, shown, lp, settings, rt_queue, ui_queue, cur, access_token, cache, net>>
    /\ UNCHANGED ui_vars

\* webbrowser::open(auth_url)?  (spotify.rs:221)
authenticate_open_browser ==
    /\ Running /\ rt_pc = "open_browser"
    /\ \E opened \in BOOLEAN :
         IF opened
         THEN /\ session' = [session EXCEPT !.browser = TRUE]
              /\ rt_pc' = "bind"
              /\ res' = res
              /\ hist' = hist
         ELSE /\ session' = session
              /\ rt_pc' = "send"
              /\ res' = Some(Err("IoError"))
              /\ hist' = [hist EXCEPT !.flows = @ - 1]
    /\ UNCHANGED <<now, shown, lp, settings, rt_queue, ui_queue, cur, access_token, cache, net>>
    /\ UNCHANGED ui_vars

\* warp::serve(callback_route).bind(addr).await (spotify.rs:232-239): the
\* bind panics when the address cannot be bound.
authenticate_bind ==
    /\ Running /\ rt_pc = "bind"
    /\ \E bound \in BOOLEAN :
         IF bound
         THEN /\ session' = [session EXCEPT !.listener = "serving"]
              /\ rt_pc' = "serve"
              /\ rt_queue' = rt_queue
              /\ hist' = [hist EXCEPT !.listeners = @ + 1]
         ELSE /\ session' = session
              /\ rt_pc' = "panicked"
              /\ rt_queue' = <<>>
              /\ hist' = hist
    /\ UNCHANGED <<now, shown, lp, settings, ui_queue, cur, res, access_token, cache, net>>
    /\ UNCHANGED ui_vars

\* Query parameters of a request to /callback (spotify.rs:204-205)
CodeParams == {<<>>, Some("code")}
StateParams == {<<>>} \cup {Some(t) : t \in StateStrings}

\* A request reaches /callback while the listener accepts connections.
callback_arrive(max_callbacks) ==
    /\ Running /\ rt_pc = "serve" /\ session.listener = "serving"
    /\ Len(session.reqs) < max_callbacks
    /\ \E code \in CodeParams, state \in StateParams :
         session' = [session EXCEPT !.reqs =
             Append(@, [code |-> code, state |-> state, pc |-> "content",
                        late |-> ~session.tx_content /\ ~session.tx_shutdown,
                        sent_content |-> FALSE, sent_shutdown |-> FALSE])]
    /\ UNCHANGED <<now, shown, lp, settings, rt_queue, ui_queue, rt_pc, cur, res, access_token,
                   cache, net, hist>>
    /\ UNCHANGED ui_vars

\* Option::take on the sender slot leaves None behind (spotify.rs:207, 211)
TakeSlot_keep(slot) == slot
TakeSlot(slot) == FALSE

\* if let Some(tx_inner) = tx_content_mutex.lock().unwrap().take()
\*     { tx_inner.send((code, state)).unwrap(); }   (spotify.rs:207-210)
\* code and state are moved into the channel or never used again.
callback_content(i) ==
    /\ Running /\ i \in 1..Len(session.reqs)
    /\ session.reqs[i].pc = "content"
    /\ IF session.tx_content
       THEN session' = [session EXCEPT
                !.tx_content = TakeSlot(@),
                !.rx_content = Some([code |-> session.reqs[i].code,
                                     state |-> session.reqs[i].state]),
                !.n_content = @ + 1,
                !.reqs[i].sent_content = TRUE,
                !.reqs[i].code = <<>>,
                !.reqs[i].state = <<>>,
                !.reqs[i].pc = "shutdown"]
       ELSE session' = [session EXCEPT !.reqs[i].code = <<>>,
                                       !.reqs[i].state = <<>>,
                                       !.reqs[i].pc = "shutdown"]
    /\ UNCHANGED <<now, shown, lp, settings, rt_queue, ui_queue, rt_pc, cur, res, access_token,
                   cache, net, hist>>
    /\ UNCHANGED ui_vars

\* if let Some(tx_shutdown_inner) = tx_shutdown_mutex.lock().unwrap().take()
\*     { tx_shutdown_inner.send(()).unwrap(); }     (spotify.rs:211-214)
callback_shutdown(i) ==
    /\ Running /\ i \in 1..Len(session.reqs)
    /\ session.reqs[i].pc = "shutdown"
    /\ IF session.tx_shutdown
       THEN session' = [session EXCEPT
                !.tx_shutdown = TakeSlot(@),
                !.rx_shutdown = TRUE,
                !.n_shutdown = @ + 1,
                !.reqs[i].sent_shutdown = TRUE,
                !.reqs[i].pc = "reply"]
       ELSE session' = [session EXCEPT !.reqs[i].pc = "reply"]
    /\ UNCHANGED <<now, shown, lp, settings, rt_queue, ui_queue, rt_pc, cur, res, access_token,
                   cache, net, hist>>
    /\ UNCHANGED ui_vars

\* warp::reply::html(..): the request is answered and its connection ends
callback_reply(i) ==
    /\ Running /\ i \in 1..Len(session.reqs)
    /\ session.reqs[i].pc = "reply"
    /\ session' = [session EXCEPT !.reqs[i].pc = "done"]
    /\ UNCHANGED <<now, shown, lp, settings, rt_queue, ui_queue, rt_pc, cur, res, access_token,
                   cache, net, hist>>
    /\ UNCHANGED ui_vars

\* rx_shutdown.await completes when the signal has been sent (spotify.rs:236)
ShutdownReceived_timeout(s) == TRUE

ShutdownReceived(s) == s.rx_shutdown

\* .graceful(async move { rx_shutdown.await.unwrap(); }): once the signal is
\* received the listener stops accepting (spotify.rs:235-238)
server_graceful ==
    /\ Running /\ session.listener = "serving" /\ ShutdownReceived(session)
    /\ session' = [session EXCEPT !.listener = "draining"]
    /\ UNCHANGED <<now, shown, lp, settings, rt_queue, ui_queue, rt_pc, cur, res, access_token,
                   cache, net, hist>>
    /\ UNCHANGED ui_vars

\* the graceful server's future completes: shutdown was signalled and the
\* open connections have drained
ServerFinished_nowait(s) == TRUE

ServerFinished(s) ==
    /\ s.listener = "draining"
    /\ \A i \in 1..Len(s.reqs) : s.reqs[i].pc = "done"

\* server.await returns when the open connections have drained (spotify.rs:243)
authenticate_server_done ==
    /\ Running /\ rt_pc = "serve" /\ ServerFinished(session)
    /\ session' = [session EXCEPT !.listener = "closed"]
    /\ hist' = [hist EXCEPT !.listeners = @ - 1]
    /\ rt_pc' = "read_content"
    /\ UNCHANGED <<now, shown, lp, settings, rt_queue, ui_queue, cur, res, access_token, cache, net>>
    /\ UNCHANGED ui_vars

\* state != *csrf_token.secret()  (spotify.rs:258)
CsrfMatches_any(state, csrf) == TRUE
CsrfMatches(state, csrf) == state = csrf

\* spotify.rs:251-260, "" when the callback passes all three checks
CallbackError_statefirst(pair, csrf) ==
    IF ~IsSome(pair.state) THEN "MissingStateAuthError"
    ELSE IF ~IsSome(pair.code) THEN "MissingCodeAuthError"
    ELSE IF ~CsrfMatches(Unwrap(pair.state), csrf) THEN "CrsfMismatch"
    ELSE ""

CallbackError(pair, csrf) ==
    IF ~IsSome(pair.code) THEN "MissingCodeAuthError"
    ELSE IF ~IsSome(pair.state) THEN "MissingStateAuthError"
    ELSE IF ~CsrfMatches(Unwrap(pair.state), csrf) THEN "CrsfMismatch"
    ELSE ""

\* let (code, state) = rx_content.await.unwrap(); and the checks on it
\* (spotify.rs:247-260).  The unwrap panics if the sender was dropped unused.
authenticate_read_content ==
    /\ Running /\ rt_pc = "read_content"
    /\ IF ~IsSome(session.rx_content)
       THEN /\ rt_pc' = "panicked" /\ rt_queue' = <<>> /\ res' = res /\ hist' = hist
       ELSE LET e == CallbackError(Unwrap(session.rx_content), session.csrf)
            IN  IF e # ""
                THEN /\ rt_pc' = "send" /\ rt_queue' = rt_queue
                     /\ res' = Some(Err(e))
                     /\ hist' = [hist EXCEPT !.flows = @ - 1]
                ELSE /\ rt_pc' = "exchange" /\ rt_queue' = rt_queue
                     /\ res' = res /\ hist' = hist
    /\ UNCHANGED <<now, shown, lp, settings, ui_queue, cur, access_token, session, cache, net>>
    /\ UNCHANGED ui_vars

\* client.exchange_code(code)...request_async(&http_client) is issued
\* (spotify.rs:262-272)
authenticate_exchange_send ==
    /\ Running /\ rt_pc = "exchange"
    /\ net' = net \cup {[call |-> "token", n |-> cur.n]}
    /\ session' = [session EXCEPT !.exchanges = @ + 1]
    /\ rt_pc' = "exchange_wait"
    /\ UNCHANGED <<now, shown, lp, settings, rt_queue, ui_queue, cur, res, access_token, cache, hist>>
    /\ UNCHANGED ui_vars

\* .await? on the token request, then the store into the token cell
\* (spotify.rs:273-280); runtime.rs:68-71 turns Ok into Authenticated.
StoreToken_skip(cell, token) == cell
\* *token_guard = Some(token_result.access_token().secret().clone())
StoreToken(cell, token) == Some(token)

TokenOnFailure_clear(cell) == <<>>
\* .await? returns the TokenRequest error before the cell is locked
\* (spotify.rs:273): the cell keeps what it held
TokenOnFailure(cell) == cell

authenticate_exchange_done ==
    /\ Running /\ rt_pc = "exchange_wait"
    /\ net' = net \ {[call |-> "token", n |-> cur.n]}
    /\ \E token_result \in {<<>>} \cup {Some(t) : t \in Tokens} :
         IF IsSome(token_result)
         THEN /\ access_token' = StoreToken(access_token, Unwrap(token_result))
              /\ res' = Some(Ok(Authenticated))
         ELSE /\ access_token' = TokenOnFailure(access_token)
              /\ res' = Some(Err("TokenRequest"))
    /\ rt_pc' = "send"
    /\ hist' = [hist EXCEPT !.flows = @ - 1]
    /\ UNCHANGED <<now, shown, lp, settings, rt_queue, ui_queue, cur, session, cache>>
    /\ UNCHANGED ui_vars


(***************************************************************************)
(* spotify.rs: SpotifyClient::get_current_track, with runtime.rs:          *)
(* get_current_track                                                       *)
(***************************************************************************)
CurrentTrackResult_nostatus(resp) ==
    IF ~resp.sent THEN Err("ReqwestError")
    ELSE IF ~IsSome(resp.body) THEN Err("ReqwestError")
    ELSE IF Unwrap(resp.body).currently_playing_type # "track" THEN Err("NotATrack")
    ELSE Ok(Unwrap(resp.body))
\* spotify.rs:290-310: what get_current_track returns for a response
CurrentTrackResult(resp) ==
    IF ~resp.sent THEN Err("ReqwestError")
    ELSE IF resp.status = 204 THEN Err("NoContentResponse")
    ELSE IF ~IsSome(resp.body) THEN Err("ReqwestError")
    ELSE IF Unwrap(resp.body).currently_playing_type # "track" THEN Err("NotATrack")
    ELSE Ok(Unwrap(resp.body))

\* The token is cloned out of the cell; without one the call returns
\* NotAuthenticated, which runtime.rs:54 unwraps (spotify.rs:284-295).
HasToken_always(token_opt) == TRUE
\* let Some(token) = token_opt else { return Err(NotAuthenticated) }
HasToken(token_opt) == IsSome(token_opt)

get_current_track_begin ==
    /\ Running /\ rt_pc = "get_current_track"
    /\ IF ~HasToken(access_token)
       THEN /\ rt_pc' = "panicked" /\ rt_queue' = <<>> /\ net' = net
            /\ hist' = [hist EXCEPT !.poll = "NotAuthenticated", !.resp = <<>>]
       ELSE /\ rt_pc' = "poll_wait" /\ rt_queue' = rt_queue
            /\ net' = net \cup {[call |-> "currently-playing", n |-> cur.n]}
            /\ hist' = [hist EXCEPT !.poll = "", !.resp = <<>>]
    /\ UNCHANGED <<now, shown, lp, settings, ui_queue, cur, res, access_token, session, cache>>
    /\ UNCHANGED ui_vars

\* runtime.rs:54-56: let res = spotify_client.get_current_track().await.unwrap();
\*                   Ok(MessageToUI::CurrentlyPlaying(res))
get_current_track_done ==
    /\ Running /\ rt_pc = "poll_wait"
    /\ net' = net \ {[call |-> "currently-playing", n |-> cur.n]}
    /\ \E resp \in PollResponses :
         LET r == CurrentTrackResult(resp)
         IN  IF r.ok
             THEN /\ res' = Some(Ok(CurrentlyPlaying(r.val)))
                  /\ rt_pc' = "send" /\ rt_queue' = rt_queue
                  /\ hist' = [hist EXCEPT !.poll = "Ok", !.resp = Some(resp)]
             ELSE /\ res' = res
                  /\ rt_pc' = "panicked" /\ rt_queue' = <<>>
                  /\ hist' = [hist EXCEPT !.poll = r.err, !.resp = Some(resp)]
    /\ UNCHANGED <<now, shown, lp, settings, ui_queue, cur, access_token, session, cache>>
    /\ UNCHANGED ui_vars

(***************************************************************************)
(* lyrics_fetch.rs: LyricsFetcher                                          *)
(***************************************************************************)
\* serde_json::to_string_pretty(&song_lyrics) and serde_json::from_reader
ToJson(lyrics) == [synced_lyrics |-> lyrics]
FromJson(doc) == doc.synced_lyrics

\* fs::File::create: opens write-only, creating the file or truncating it
FileCreate(file) == [file |-> EmptyFile, handle |-> [readable |-> FALSE, json |-> <<>>]]

\* serde_json::from_reader(handle): fails on a handle that cannot be read
\* and on an empty document
from_reader(handle) ==
    IF ~handle.readable THEN Err("Serde")
    ELSE IF ~IsSome(handle.json) THEN Err("Serde")
    ELSE Ok(FromJson(Unwrap(handle.json)))

\* check_cache (lyrics_fetch.rs:163-178): the possible outcomes, each the
\* cache folder afterwards and the result.  File::create may fail.
check_cache(c, req) ==
    LET k == get_track_identifier(req)
    IN  IF ~c[k].lrc.exists
        THEN {[cache |-> c, result |-> Err("NotInCache")]}
        ELSE {[cache |-> c, result |-> Err("IoError")],
              [cache |-> [c EXCEPT ![k].lrc = FileCreate(c[k].lrc).file],
               result |-> from_reader(FileCreate(c[k].lrc).handle)]}

\* LrcCacheMeta built by store_in_cache (lyrics_fetch.rs:191-199)
MetaOf(req, resp) ==
    [spotify_id |-> req.spotify_id, lrc_id |-> resp.id,
     track_name |-> resp.track_name, artist_name |-> resp.artist_name,
     album_name |-> resp.album_name, duration_sec |-> resp.duration_sec,
     instrumental |-> resp.instrumental]

\* store_in_cache (lyrics_fetch.rs:180-211): the possible outcomes.  Each
\* fs call may fail (returned with ?); a failed write! is unwrapped.
store_in_cache(c, req, resp, song_lyrics) ==
    LET k == get_track_identifier(req)
        meta_created == [c EXCEPT ![k].meta = EmptyFile]
        meta_written == [c EXCEPT ![k].meta = FileOf(MetaOf(req, resp))]
        lrc_created  == [meta_written EXCEPT ![k].lrc = EmptyFile]
        lrc_written  == [meta_written EXCEPT ![k].lrc = FileOf(ToJson(song_lyrics))]
    IN  {[cache |-> c,            result |-> "IoError", at |-> "create_dir_all"],
         [cache |-> c,            result |-> "IoError", at |-> "create .meta"],
         [cache |-> meta_created, result |-> "panic",   at |-> "write .meta"],
         [cache |-> meta_written, result |-> "IoError", at |-> "create lyrics.lrc"],
         [cache |-> lrc_created,  result |-> "panic",   at |-> "write lyrics.lrc"],
         [cache |-> lrc_written,  result |-> "Ok",      at |-> ""]}

\* if self.settings.caching_enabled (lyrics_fetch.rs:214)
UsesCache_always(s) == TRUE

UsesCache(s) == s.caching_enabled

\* get_lyrics up to the request to the provider (lyrics_fetch.rs:213-234)
get_lyrics_begin ==
    /\ Running /\ rt_pc = "get_lyrics"
    /\ LET req == cur.msg.request
           k   == get_track_identifier(req)
       IN  IF UsesCache(settings)
           THEN \E o \in check_cache(cache, req) :
                  /\ cache' = o.cache
                  /\ hist' = [hist EXCEPT !.check =
                         Some([key |-> k, file |-> cache[k].lrc, entry |-> cache[k],
                               result |-> o.result])]
                  /\ IF o.result.ok
                     THEN /\ res' = Some(Ok(GotLyrics(SongWithLyrics(o.result.val, req))))
                          /\ rt_pc' = "send"
                          /\ net' = net
                     ELSE /\ res' = res
                          /\ rt_pc' = "lyrics_wait"
                          /\ net' = net \cup {[call |-> "lrclib", n |-> cur.n]}
           ELSE /\ cache' = cache
                /\ hist' = [hist EXCEPT !.check = <<>>]
                /\ res' = res
                /\ rt_pc' = "lyrics_wait"
                /\ net' = net \cup {[call |-> "lrclib", n |-> cur.n]}
    /\ UNCHANGED <<now, shown, lp, settings, rt_queue, ui_queue, cur, access_token, session>>
    /\ UNCHANGED ui_vars

\* get_lyrics from the provider's answer on (lyrics_fetch.rs:236-253)
get_lyrics_done ==
    /\ Running /\ rt_pc = "lyrics_wait"
    /\ net' = net \ {[call |-> "lrclib", n |-> cur.n]}
    /\ LET req == cur.msg.request
       IN  \E lrc_response \in {<<>>} \cup {Some(r) : r \in LrcResponses(req)} :
             IF ~IsSome(lrc_response)
             THEN /\ res' = Some(Ok(DisplayError("Failed to fetch lyrics")))
                  /\ rt_pc' = "send" /\ rt_queue' = rt_queue
                  /\ cache' = cache
                  /\ hist' = hist
             ELSE LET parsed == parse_lrc(Unwrap(lrc_response).synced_lyrics, FALSE)
                  IN  \E o \in store_in_cache(cache, req, Unwrap(lrc_response), parsed) :
                        /\ cache' = o.cache
                        /\ hist' = [hist EXCEPT !.store =
                               Some([n |-> cur.n, result |-> o.result,
                                     at |-> o.at, lyrics |-> parsed])]
                        /\ IF o.result = "panic"
                           THEN /\ res' = res
                                /\ rt_pc' = "panicked" /\ rt_queue' = <<>>
                           ELSE /\ res' = Some(Ok(GotLyrics(SongWithLyrics(parsed, req))))
                                /\ rt_pc' = "send" /\ rt_queue' = rt_queue
    /\ UNCHANGED <<now, shown, lp, settings, ui_queue, cur, access_token, session>>
    /\ UNCHANGED ui_vars

(***************************************************************************)
(* overlay.rs: LyricsAppUI                                                 *)
(***************************************************************************)
\* tx.try_send(msg) succeeds when the receiver lives and the channel has room
TrySendOk == ~RtPanicked /\ Len(rt_queue) < ChanCap

\* Err(TrySendError::Closed) when the receiver is gone, Err(Full) when the
\* channel is at capacity
TrySendResult == IF RtPanicked THEN "Closed" ELSE IF TrySendOk THEN "Ok" ELSE "Full"

\* self.tx.try_send(msg).unwrap(); hist.tried keeps the last attempt
TrySendUnwrap(msg) ==
    IF TrySendOk
    THEN /\ rt_queue' = Append(rt_queue, msg)
         /\ hist' = [hist EXCEPT !.enq = Append(@, msg),
                                 !.tried = Some([msg |-> msg, result |-> TrySendResult])]
         /\ ui_pc' = ui_pc
    ELSE /\ rt_queue' = rt_queue
         /\ hist' = [hist EXCEPT !.tried = Some([msg |-> msg, result |-> TrySendResult])]
         /\ ui_pc' = "panicked"

\* authentication_ui: the button is drawn while !is_auth (overlay.rs:195-197)
\* and a click sends Authenticate (overlay.rs:80-82)
authentication_ui(max_clicks) ==
    /\ Running /\ ~is_auth /\ clicks < max_clicks
    /\ clicks' = clicks + 1
    /\ TrySendUnwrap(Authenticate)
    /\ UNCHANGED <<now, shown, lp, settings, ui_queue, rt_pc, cur, res, access_token, session,
                   cache, net, is_auth, error_string, currently_playing,
                   current_song_with_lyrics, time_of_last_req>>

\* One round of the while let Ok(message) = self.rx.try_recv() loop
\* (overlay.rs:43-68)
message_loop ==
    /\ Running /\ ui_queue # <<>>
    /\ ui_queue' = Tail(ui_queue)
    /\ LET message == Head(ui_queue)
       IN  CASE message.kind = "Authenticated" ->
                  /\ is_auth' = TRUE
                  /\ TrySendUnwrap(GetCurrentTrack)
                  /\ UNCHANGED <<error_string, currently_playing,
                                 current_song_with_lyrics, time_of_last_req>>
             [] message.kind = "CurrentlyPlaying" ->
                  /\ currently_playing' = Some(message.data)
                  /\ time_of_last_req' = now
                  /\ IF ~is_track(message.data)
                     THEN /\ ui_pc' = "panicked"
                          /\ UNCHANGED <<rt_queue, hist>>
                     ELSE IF get_artist_panics(message.data)
                     THEN /\ ui_pc' = "panicked"
                          /\ UNCHANGED <<rt_queue, hist>>
                     ELSE TrySendUnwrap(GetLyrics(from_spotify_response(message.data)))
                  /\ UNCHANGED <<is_auth, error_string, current_song_with_lyrics>>
             [] message.kind = "DisplayError" ->
                  /\ error_string' = Some(message.err)
                  /\ UNCHANGED <<rt_queue, hist, ui_pc, is_auth, currently_playing,
                                 current_song_with_lyrics, time_of_last_req>>
             [] message.kind = "GotLyrics" ->
                  /\ current_song_with_lyrics' = Some(message.song)
                  /\ UNCHANGED <<rt_queue, hist, ui_pc, is_auth, error_string,
                                 currently_playing, time_of_last_req>>
    /\ UNCHANGED <<now, shown, lp, settings, rt_pc, cur, res, access_token, session, cache, net,
                   clicks>>

(***************************************************************************)
(* The system                                                              *)
(***************************************************************************)
\* One step of the program, the user making at most max_clicks clicks and
\* at most max_callbacks requests reaching each listener
Step(max_clicks, max_callbacks) ==
    \/ start_runtime_recv
    \/ start_runtime_send
    \/ authenticate_begin
    \/ authenticate_open_browser
    \/ authenticate_bind
    \/ callback_arrive(max_callbacks)
    \/ \E i \in 1..Len(session.reqs) : callback_content(i)
    \/ \E i \in 1..Len(session.reqs) : callback_shutdown(i)
    \/ \E i \in 1..Len(session.reqs) : callback_reply(i)
    \/ server_graceful
    \/ authenticate_server_done
    \/ authenticate_read_content
    \/ authenticate_exchange_send
    \/ authenticate_exchange_done
    \/ get_current_track_begin
    \/ get_current_track_done
    \/ get_lyrics_begin
    \/ get_lyrics_done
    \/ authentication_ui(max_clicks)
    \/ message_loop

Next == Step(MaxClicks, MaxCallbacks)

Spec == Init /\ [][Next]_vars

\* The same program, with fewer clicks and more requests to /callback
NextListener == Step(ListenerClicks, ListenerCallbacks)

SpecListener == Init /\ [][NextListener]_vars

\* The same program, with a user who clicks more often than the inbound
\* channel has room
NextBurst == Step(BurstClicks, BurstCallbacks)

SpecBurst == Init /\ [][NextBurst]_vars

\* The decimal digits of n, most significant first
DigitChar(d) ==
    CASE d = 0 -> "0" [] d = 1 -> "1" [] d = 2 -> "2" [] d = 3 -> "3"
      [] d = 4 -> "4" [] d = 5 -> "5" [] d = 6 -> "6" [] d = 7 -> "7"
      [] d = 8 -> "8" [] d = 9 -> "9"

RECURSIVE FormatNat(_)
FormatNat(n) ==
    IF n < 10 THEN <<DigitChar(n)>>
    ELSE Append(FormatNat(n \div 10), DigitChar(n % 10))

\* n written as LRC files write a field: as it is, or padded to two digits
FormatField(n, padded) ==
    IF padded /\ n < 10 THEN <<"0">> \o FormatNat(n) ELSE FormatNat(n)

\* lyrics_parser.rs called on its own, as tests::parse_rick does: a text is
\* parsed with either value of strip_empty_lines and positions are looked up
\* in the timeline.  The texts are up to MaxLines lines out of ParserLines.
\* The lines, by their make-up: metas leading tags that are no timestamps,
\* then a time tag of ts seconds (none when ts is -1), then the text, with a
\* blank after each tag when gap is set.
LineShapes ==
    {[metas |-> 0, ts |-> 1, gap |-> FALSE, text |-> <<"a">>],
     [metas |-> 0, ts |-> 0, gap |-> FALSE, text |-> <<"b">>],
     [metas |-> 0, ts |-> 1, gap |-> TRUE, text |-> <<"c">>],
     [metas |-> 0, ts |-> 2, gap |-> FALSE, text |-> <<>>],
     [metas |-> 1, ts |-> 0, gap |-> FALSE, text |-> <<"d">>],
     [metas |-> 0, ts |-> -1, gap |-> FALSE, text |-> <<"x">>],
     [metas |-> 1, ts |-> -1, gap |-> FALSE, text |-> <<>>],
     [metas |-> 0, ts |-> -1, gap |-> FALSE, text |-> <<>>]}

RECURSIVE MetaTags(_, _)
MetaTags(n, gap) ==
    IF n = 0 THEN <<>>
    ELSE <<"[", "a", "r", ":", "x", "]">> \o (IF gap THEN <<" ">> ELSE <<>>)
             \o MetaTags(n - 1, gap)

\* the text of a line of that make-up
RenderLine(shape) ==
    MetaTags(shape.metas, shape.gap)
    \o (IF shape.ts = -1 THEN <<>>
        ELSE <<"[", "0", ":">> \o FormatNat(shape.ts) \o <<"]">>
                 \o (IF shape.gap THEN <<" ">> ELSE <<>>))
    \o shape.text

ParserLines == {RenderLine(shape) : shape \in LineShapes}

RECURSIVE JoinLines(_)
JoinLines(ls) ==
    IF ls = <<>> THEN <<>>
    ELSE IF Len(ls) = 1 THEN ls[1]
    ELSE ls[1] \o <<"\n">> \o JoinLines(Tail(ls))

ShapeSeqs == UNION {[1..n -> LineShapes] : n \in 0..MaxLines}

ContentOf(shapes) == JoinLines([i \in 1..Len(shapes) |-> RenderLine(shapes[i])])

ParserContents == {ContentOf(shapes) : shapes \in ShapeSeqs}

\* elapsed_ms values around the offsets the texts carry
ElapsedValues == {0, 999, 1000, 1999, 2000, 2001}

InitParser ==
    /\ settings = [client_id |-> "id", client_secret |-> "secret",
                   caching_enabled |-> FALSE]
    /\ rt_queue = <<>>
    /\ ui_queue = <<>>
    /\ rt_pc = "recv"
    /\ cur = NoIntent
    /\ res = <<>>
    /\ access_token = <<>>
    /\ session = NoSession
    /\ cache = [k \in Keys |-> [meta |-> NoFile, lrc |-> NoFile]]
    /\ ui_pc = "run"
    /\ is_auth = FALSE
    /\ error_string = <<>>
    /\ currently_playing = <<>>
    /\ current_song_with_lyrics = <<>>
    /\ clicks = 0
    /\ net = {}
    /\ hist = [enq |-> <<>>, started |-> 0, out |-> <<>>, flows |-> 0,
               listeners |-> 0, poll |-> "", resp |-> <<>>, check |-> <<>>,
               tried |-> <<>>, store |-> <<>>]
    /\ now = 0
    /\ time_of_last_req = now
    /\ shown = NoFrame
    /\ \E shapes \in ShapeSeqs, strip_empty_lines \in BOOLEAN :
         lp = [pc |-> "text", shapes |-> shapes, content |-> ContentOf(shapes),
               strip |-> strip_empty_lines, pushed |-> <<>>, lines |-> <<>>,
               unstripped |-> <<>>, elapsed |-> 0, pos |-> BeforeStart]

\* let parsed = parse_lrc(&content, strip_empty_lines), next to
\* parse_lrc(&content, false) of the same text; lp.pushed keeps the lines in
\* the order the loop pushed them, before the sort
call_parse_lrc ==
    /\ lp.pc = "text"
    /\ lp' = [lp EXCEPT !.pc = "parsed",
                        !.pushed = CollectLines(StrLines(lp.content), lp.strip),
                        !.lines = parse_lrc(lp.content, lp.strip),
                        !.unstripped = parse_lrc(lp.content, FALSE)]
    /\ UNCHANGED <<settings, rt_queue, ui_queue, rt_pc, cur, res, access_token,
                   session, cache, net, hist, now, shown>>
    /\ UNCHANGED ui_vars

\* find_current_index(&parsed, elapsed_ms)
call_find_current_index ==
    /\ lp.pc \in {"parsed", "located"}
    /\ \E elapsed_ms \in ElapsedValues :
         lp' = [lp EXCEPT !.pc = "located", !.elapsed = elapsed_ms,
                          !.pos = find_current_index(lp.lines, elapsed_ms)]
    /\ UNCHANGED <<settings, rt_queue, ui_queue, rt_pc, cur, res, access_token,
                   session, cache, net, hist, now, shown>>
    /\ UNCHANGED ui_vars

NextParser == call_parse_lrc \/ call_find_current_index

SpecParser == InitParser /\ [][NextParser]_vars

\* The application not started: what the variables of the application hold
\* while lyrics_parser.rs is exercised on its own.
AppIdle ==
    /\ settings = [client_id |-> "id", client_secret |-> "secret",
                   caching_enabled |-> FALSE]
    /\ rt_queue = <<>>
    /\ ui_queue = <<>>
    /\ rt_pc = "recv"
    /\ cur = NoIntent
    /\ res = <<>>
    /\ access_token = <<>>
    /\ session = NoSession
    /\ cache = [k \in Keys |-> [meta |-> NoFile, lrc |-> NoFile]]
    /\ ui_pc = "run"
    /\ is_auth = FALSE
    /\ error_string = <<>>
    /\ currently_playing = <<>>
    /\ current_song_with_lyrics = <<>>
    /\ clicks = 0
    /\ net = {}
    /\ hist = [enq |-> <<>>, started |-> 0, out |-> <<>>, flows |-> 0,
               listeners |-> 0, poll |-> "", resp |-> <<>>, check |-> <<>>,
               tried |-> <<>>, store |-> <<>>]
    /\ now = 0
    /\ time_of_last_req = now
    /\ shown = NoFrame

\* The fields a tag is built of: the numbers up to MaxField, each with the
\* number it stands for, and texts that are not a non-negative integer
\* (val -1)
TagFields ==
    {[text |-> FormatField(n, padded), val |-> n] :
        n \in 0..MaxField, padded \in BOOLEAN}
    \cup {[text |-> <<"x">>, val |-> -1], [text |-> <<"-", "1">>, val |-> -1]}

\* no fraction in the tag
NoField == [text |-> <<>>, val |-> -2]

\* lyrics_parser.rs: parse_time_tag called on its own with the tags
\* mm:ss, mm:ss.cc and mm:ss:cc built of those fields
InitTag ==
    /\ AppIdle
    /\ \E minutes \in TagFields, secs \in TagFields :
         \/ lp = [pc |-> "tag",
                  tag |-> minutes.text \o <<":">> \o secs.text,
                  minutes |-> minutes.val, secs |-> secs.val,
                  frac |-> NoField.val, ms |-> -1]
         \/ \E sep \in {".", ":"}, frac \in TagFields :
              lp = [pc |-> "tag",
                    tag |-> minutes.text \o <<":">> \o secs.text
                              \o <<sep>> \o frac.text,
                    minutes |-> minutes.val, secs |-> secs.val,
                    frac |-> frac.val, ms |-> -1]

\* parse_time_tag(tag)
call_parse_time_tag ==
    /\ lp.pc = "tag"
    /\ lp' = [lp EXCEPT !.pc = "tag_parsed", !.ms = parse_time_tag(lp.tag)]
    /\ UNCHANGED <<settings, rt_queue, ui_queue, rt_pc, cur, res, access_token,
                   session, cache, net, hist, now, shown>>
    /\ UNCHANGED ui_vars

NextTag == call_parse_time_tag

SpecTag == InitTag /\ [][NextTag]_vars

\* LyricsAppUI driven directly: events of any kind arrive on its rx channel,
\* the other end of its tx channel takes the intents, the wall clock
\* advances and frames are drawn.
RenderSong ==
    SongWithLyrics(parse_lrc(RawLyricsA, FALSE),
                   from_spotify_response([currently_playing_type |-> "track",
                                          item |-> Some(TrackA),
                                          progress_ms |-> 0]))

RenderSnapshots ==
    {[currently_playing_type |-> "track", item |-> Some(TrackA),
      progress_ms |-> p] : p \in 0..MaxProgress}

RenderEvents ==
    {Authenticated, GotLyrics(RenderSong)}
    \cup {CurrentlyPlaying(s) : s \in RenderSnapshots}

InitRender == AppIdle /\ lp = NoCall

\* an event is put into the channel to the UI
runtime_sends ==
    /\ Running /\ Len(ui_queue) < ChanCap /\ Len(hist.out) < MaxEvents
    /\ \E ev \in RenderEvents :
         /\ ui_queue' = Append(ui_queue, ev)
         /\ hist' = [hist EXCEPT !.out = Append(@, [n |-> 0, msg |-> NoIntent.msg,
                                                    ev |-> ev.kind])]
    /\ UNCHANGED <<now, shown, lp, settings, rt_queue, rt_pc, cur, res,
                   access_token, session, cache, net>>
    /\ UNCHANGED ui_vars

\* an intent is taken out of the channel from the UI
runtime_receives ==
    /\ Running /\ rt_queue # <<>>
    /\ rt_queue' = Tail(rt_queue)
    /\ UNCHANGED <<now, shown, lp, settings, ui_queue, rt_pc, cur, res,
                   access_token, session, cache, net, hist>>
    /\ UNCHANGED ui_vars

\* a millisecond passes
clock_tick ==
    /\ Running /\ now < MaxTime
    /\ now' = now + 1
    /\ UNCHANGED <<shown, lp, settings, rt_queue, ui_queue, rt_pc, cur, res,
                   access_token, session, cache, net, hist>>
    /\ UNCHANGED ui_vars

\* self.time_of_last_req.elapsed().as_millis() (overlay.rs:109)
Elapsed_frozen(instant, clock) == 0

Elapsed(instant, clock) == clock - instant

\* display_lyrics (overlay.rs:106-117), drawn by update when is_auth and a
\* song with lyrics is held (overlay.rs:195-201).  shown keeps the value
\* computed, when it was computed, the snapshot and instant it was computed
\* from, and in prev_ms the value of the frame before when that was
\* computed from the same snapshot.
display_lyrics ==
    /\ Running /\ is_auth /\ IsSome(current_song_with_lyrics)
    /\ LET progress_ms == IF IsSome(currently_playing)
                          THEN Unwrap(currently_playing).progress_ms ELSE 0
           elapsed     == Elapsed(time_of_last_req, now)
           current_ms  == progress_ms + elapsed
       IN  shown' = [current_ms |-> Some(current_ms),
                     prev_ms |-> IF shown.since = time_of_last_req
                                    /\ shown.snapshot = currently_playing
                                 THEN shown.current_ms ELSE <<>>,
                     at |-> now,
                     since |-> time_of_last_req,
                     snapshot |-> currently_playing]
    /\ UNCHANGED <<now, lp, settings, rt_queue, ui_queue, rt_pc, cur, res,
                   access_token, session, cache, net, hist>>
    /\ UNCHANGED ui_vars

NextRender ==
    \/ runtime_sends
    \/ runtime_receives
    \/ clock_tick
    \/ message_loop
    \/ display_lyrics

SpecRender == InitRender /\ [][NextRender]_vars

\* The coordinator driven directly: start_runtime is handed a channel that
\* already holds intents of any kind, as a caller other than LyricsAppUI
\* (a test of runtime.rs) can enqueue them.  No LyricsAppUI runs: the
\* events stay in the outbound channel.
DirectIntents == {Authenticate, GetCurrentTrack} \cup {GetLyrics(r) : r \in Requests}

DirectQueues ==
    UNION {[1..n -> DirectIntents] : n \in 0..DirectQueue}

InitDirect ==
    /\ settings \in SettingsSet
    /\ rt_queue \in DirectQueues
    /\ ui_queue = <<>>
    /\ rt_pc = "recv"
    /\ cur = NoIntent
    /\ res = <<>>
    /\ access_token = <<>>
    /\ session = NoSession
    /\ cache = [k \in Keys |-> [meta |-> NoFile, lrc |-> NoFile]]
    /\ ui_pc = "run"
    /\ is_auth = FALSE
    /\ error_string = <<>>
    /\ currently_playing = <<>>
    /\ current_song_with_lyrics = <<>>
    /\ clicks = 0
    /\ net = {}
    /\ hist = [enq |-> rt_queue, started |-> 0, out |-> <<>>, flows |-> 0,
               listeners |-> 0, poll |-> "", resp |-> <<>>, check |-> <<>>,
               tried |-> <<>>,
               store |-> <<>>]
    /\ lp = NoCall
    /\ now = 0
    /\ time_of_last_req = now
    /\ shown = NoFrame

NextDirect ==
    \/ start_runtime_recv
    \/ start_runtime_send
    \/ authenticate_begin
    \/ authenticate_open_browser
    \/ authenticate_bind
    \/ callback_arrive(MaxCallbacks)
    \/ \E i \in 1..Len(session.reqs) : callback_content(i)
    \/ \E i \in 1..Len(session.reqs) : callback_shutdown(i)
    \/ \E i \in 1..Len(session.reqs) : callback_reply(i)
    \/ server_graceful
    \/ authenticate_server_done
    \/ authenticate_read_content
    \/ authenticate_exchange_send
    \/ authenticate_exchange_done
    \/ get_current_track_begin
    \/ get_current_track_done
    \/ get_lyrics_begin
    \/ get_lyrics_done

SpecDirect == InitDirect /\ [][NextDirect]_vars

\* Scheduling.  The start_runtime task is polled by its executor until it
\* ends, every HTTP request completes or fails, warp runs each accepted
\* request to its reply, and eframe calls update, hence message_loop, on
\* every frame (ctx.request_repaint(), overlay.rs:175).  Nothing obliges the
\* user to click or a request to reach /callback.
Fairness ==
    /\ WF_vars(start_runtime_recv)
    /\ WF_vars(start_runtime_send)
    /\ WF_vars(authenticate_begin)
    /\ WF_vars(authenticate_open_browser)
    /\ WF_vars(authenticate_bind)
    /\ WF_vars(\E i \in 1..Len(session.reqs) : callback_content(i))
    /\ WF_vars(\E i \in 1..Len(session.reqs) : callback_shutdown(i))
    /\ WF_vars(\E i \in 1..Len(session.reqs) : callback_reply(i))
    /\ WF_vars(server_graceful)
    /\ WF_vars(authenticate_server_done)
    /\ WF_vars(authenticate_read_content)
    /\ WF_vars(authenticate_exchange_send)
    /\ WF_vars(authenticate_exchange_done)
    /\ WF_vars(get_current_track_begin)
    /\ WF_vars(get_current_track_done)
    /\ WF_vars(get_lyrics_begin)
    /\ WF_vars(get_lyrics_done)
    /\ WF_vars(message_loop)

\* The program of Spec under that scheduling
SpecLive == Init /\ [][Next]_vars /\ Fairness

(***************************************************************************)
(* Properties                                                              *)
(***************************************************************************)
PollFailures == {"NotAuthenticated", "NoContentResponse", "NotATrack", "ReqwestError"}

\* The events an intent of a kind can be answered with (runtime.rs:36-45)
ResultKinds(kind) ==
    CASE kind = "Authenticate" -> {"Authenticated", "DisplayError"}
      [] kind = "GetCurrentTrack" -> {"CurrentlyPlaying", "DisplayError"}
      [] kind = "GetLyrics" -> {"GotLyrics", "DisplayError"}

\* C1: the coordinator handles one intent at a time: intent n+1 is not
\* taken from the queue before the event of intent n has been sent, every
\* HTTP request in flight belongs to the intent being handled, there is at
\* most one, and none is in flight while the callback listener of an
\* authentication is up.
C1_OneIntentAtATime ==
    /\ hist.started = Len(hist.out) + (IF rt_pc = "recv" THEN 0 ELSE 1)
    /\ \A c \in net : c.n = cur.n
    /\ Cardinality(net) <= 1
    /\ session.listener \in {"serving", "draining"} => net = {}

\* C1 witness: a poll is in flight as the third intent or later, after two
\* events were sent, while another intent waits in the queue.
C1_Witness ==
    /\ cur.n >= 3 /\ cur.msg.kind = "GetCurrentTrack"
    /\ net = {[call |-> "currently-playing", n |-> cur.n]}
    /\ rt_queue # <<>>

\* C2: a failed operation never stops the coordinator: a poll that fails
\* (NotAuthenticated, NoContentResponse, NotATrack, transport error) is
\* answered with a DisplayError event and the loop goes on.
C2_FailedPollKeepsRunning ==
    (cur.msg.kind = "GetCurrentTrack" /\ hist.poll \in PollFailures)
        => /\ ~RtPanicked
           /\ rt_pc = "send"
           /\ EventOf(Unwrap(res)) = DisplayError(hist.poll)

\* C3: intents are processed in arrival order: the i-th event emitted is the
\* result of the i-th intent enqueued.
C3_ArrivalOrder ==
    \A i \in 1..Len(hist.out) :
        /\ hist.out[i].n = i
        /\ hist.out[i].msg = hist.enq[i]
        /\ hist.out[i].ev \in ResultKinds(hist.enq[i].kind)

\* C3 witness: a second Authenticate and the GetCurrentTrack the first one
\* led to were both queued, and were answered in that order.
C3_Witness ==
    /\ Len(hist.out) >= 3
    /\ hist.enq[2].kind = "Authenticate"
    /\ hist.enq[3].kind = "GetCurrentTrack"
    /\ hist.out[3].ev = "CurrentlyPlaying"

\* C4, as claimed: the pair and the shutdown signal are each sent at most
\* once, both by the first request to /callback: the request that delivers
\* the pair is the one that sends the shutdown signal (whichever request is
\* counted as the first, it is one request).
C4_BothByFirstRequest ==
    /\ session.n_content <= 1
    /\ session.n_shutdown <= 1
    /\ \A i, j \in 1..Len(session.reqs) :
           (session.reqs[i].sent_content /\ session.reqs[j].sent_shutdown) => i = j

\* C4, amended: within one authenticate call the pair is delivered at most
\* once and the shutdown signal is sent at most once; a request that arrives
\* after both were sent delivers nothing and signals nothing, and is answered.
C4_AtMostOnce ==
    /\ session.n_content <= 1
    /\ session.n_shutdown <= 1
    /\ \A i \in 1..Len(session.reqs) :
           session.reqs[i].late =>
               ~session.reqs[i].sent_content /\ ~session.reqs[i].sent_shutdown
    /\ session.listener = "closed" =>
           \A i \in 1..Len(session.reqs) : session.reqs[i].pc = "done"

\* C4 witness: a request arrived after both sends and has been answered.
C4_Witness ==
    /\ session.n_content = 1 /\ session.n_shutdown = 1
    /\ \E i \in 1..Len(session.reqs) :
           session.reqs[i].late /\ session.reqs[i].pc = "done"

\* The callback handed to authenticate carries a state, and it is not the
\* CSRF token of this flow
StateDiffers ==
    /\ IsSome(session.rx_content)
    /\ IsSome(Unwrap(session.rx_content).state)
    /\ Unwrap(Unwrap(session.rx_content).state) # session.csrf

AfterCallback == rt_pc \in {"send", "exchange", "exchange_wait"}

\* C5, as claimed: if the state of the callback differs from the CSRF token,
\* authenticate fails with CrsfMismatch and issues no token exchange.
C5_MismatchIsCrsfMismatch ==
    (cur.msg.kind = "Authenticate" /\ AfterCallback /\ StateDiffers)
        => /\ rt_pc = "send"
           /\ res = Some(Err("CrsfMismatch"))
           /\ session.exchanges = 0 /\ net = {}

\* C5, amended: if the state of the callback differs from the CSRF token, no
\* token exchange is issued and authenticate fails: with CrsfMismatch when
\* the callback carries a code, with MissingCodeAuthError when it does not.
C5_MismatchAborts ==
    (cur.msg.kind = "Authenticate" /\ AfterCallback /\ StateDiffers)
        => /\ rt_pc = "send"
           /\ res = Some(Err(IF IsSome(Unwrap(session.rx_content).code)
                             THEN "CrsfMismatch" ELSE "MissingCodeAuthError"))
           /\ session.exchanges = 0 /\ net = {}

\* C5 witness: a callback with a code and a stale state ended in CrsfMismatch.
C5_Witness ==
    /\ StateDiffers /\ IsSome(Unwrap(session.rx_content).code)
    /\ rt_pc = "send" /\ res = Some(Err("CrsfMismatch"))

\* Nothing of an authorization flow has happened: no browser, no listener,
\* no one-shot channel, no HTTP request
NoAuthSideEffect == session = NoSession /\ net = {} /\ hist.listeners = 0

\* C6: with an empty client id authenticate fails with MissingClientId, with
\* a client id and an empty client secret with MissingClientSecret, in both
\* cases before any browser is opened, listener bound or HTTP call issued.
C6_MissingCredentials ==
    /\ (settings.client_id = "" \/ settings.client_secret = "") => NoAuthSideEffect
    /\ (cur.msg.kind = "Authenticate" /\ rt_pc # "authenticate") =>
          /\ settings.client_id = "" =>
                 rt_pc = "send" /\ res = Some(Err("MissingClientId"))
          /\ (settings.client_id # "" /\ settings.client_secret = "") =>
                 rt_pc = "send" /\ res = Some(Err("MissingClientSecret"))

\* C6 witness: authenticate has returned MissingClientSecret.
C6_Witness ==
    /\ settings.client_id # "" /\ settings.client_secret = ""
    /\ rt_pc = "send" /\ res = Some(Err("MissingClientSecret"))

\* The lookup of the request being handled found lyrics.lrc holding a
\* stored timeline, and opening the file did not fail
LookupOfStoredEntry ==
    /\ cur.msg.kind = "GetLyrics" /\ rt_pc \in {"lyrics_wait", "send"}
    /\ IsSome(hist.check)
    /\ Unwrap(hist.check).file.exists /\ IsSome(Unwrap(hist.check).file.json)
    /\ Unwrap(hist.check).result # Err("IoError")

\* C7: with caching enabled, a GetLyrics intent whose key has a cache entry
\* is answered with GotLyrics carrying the cached timeline, without a call
\* to the lyrics provider.
C7_CacheHitNoFetch ==
    (settings.caching_enabled /\ LookupOfStoredEntry)
        => /\ rt_pc = "send"
           /\ net = {}
           /\ res = Some(Ok(GotLyrics(SongWithLyrics(
                  FromJson(Unwrap(Unwrap(hist.check).file.json)),
                  cur.msg.request))))

\* C8: cache round trip: check_cache for a key under which store_in_cache
\* wrote a timeline returns that timeline.
C8_CacheRoundTrip ==
    (/\ IsSome(hist.check)
     /\ Unwrap(hist.check).file.exists /\ IsSome(Unwrap(hist.check).file.json)
     /\ Unwrap(hist.check).result # Err("IoError"))
        => Unwrap(hist.check).result
               = Ok(FromJson(Unwrap(Unwrap(hist.check).file.json)))

\* C9: a poll answered with HTTP 204 yields no CurrentlyPlaying event and no
\* crash, and what it yields differs from the outcome of a transport failure.
C9_NoContentSurfaced ==
    (cur.msg.kind = "GetCurrentTrack" /\ hist.poll = "NoContentResponse")
        => /\ rt_pc = "send"
           /\ EventOf(Unwrap(res)).kind # "CurrentlyPlaying"
           /\ EventOf(Unwrap(res)) # DisplayError("ReqwestError")

\* C10: authentication attempts never overlap: at most one
\* authorize-and-exchange flow is in progress and at most one callback
\* listener is bound, whatever number of Authenticate intents is queued.
C10_NoOverlappingAuth ==
    /\ hist.flows <= 1
    /\ hist.listeners <= 1
    /\ hist.listeners = 1 <=> session.listener \in {"serving", "draining"}

\* C10 witness: a second Authenticate waits in the queue while the listener
\* of the first flow is bound.
C10_Witness ==
    /\ hist.flows = 1 /\ hist.listeners = 1
    /\ rt_queue # <<>> /\ rt_queue[1].kind = "Authenticate"

\* A GetCurrentTrack intent is queued or being handled
PollPending ==
    \/ cur.msg.kind = "GetCurrentTrack"
    \/ \E i \in 1..Len(rt_queue) : rt_queue[i].kind = "GetCurrentTrack"

\* C11: after a successful authentication the current-track status is polled
\* again and again: while the UI is authenticated and both the UI and the
\* coordinator run, a GetCurrentTrack intent is always eventually queued or
\* being handled once more.
C11_PeriodicRepoll ==
    (is_auth /\ Running /\ ~RtPanicked)
        ~> (PollPending \/ ~Running \/ RtPanicked)

\* C12: no outbound event is dropped and every one is received by the UI in
\* the order produced: the outbound channel always holds, in order, the last
\* events produced, and no event is left in the channel or waiting to be
\* sent when the UI has stopped receiving.
C12_EveryEventReceived ==
    /\ Len(ui_queue) <= Len(hist.out)
    /\ \A i \in 1..Len(ui_queue) :
           ui_queue[i].kind = hist.out[Len(hist.out) - Len(ui_queue) + i].ev
    /\ ~Running => (ui_queue = <<>> /\ rt_pc # "send")

\* C13: the inbound queue applies backpressure: an attempt of the UI to
\* enqueue an intent while the queue is at capacity does not fail the sender
\* (the UI keeps running) and does not lose the intent (it ends up enqueued).
C13_Backpressure ==
    (IsSome(hist.tried) /\ Unwrap(hist.tried).result = "Full")
        => /\ Running
           /\ hist.enq # <<>>
           /\ hist.enq[Len(hist.enq)] = Unwrap(hist.tried).msg

\* An Authenticated event has been produced: it waits to be sent, or was sent
AuthenticatedEmitted ==
    \/ res = Some(Ok(Authenticated))
    \/ \E i \in 1..Len(hist.out) : hist.out[i].ev = "Authenticated"

\* C14: Authenticated is emitted only after the token exchange of the flow
\* succeeded and its token was stored: whenever an Authenticated event has
\* been emitted the token cell holds a token, and the flow that produces
\* one has issued its exchange and has no request in flight any more.
C14_TokenBeforeAuthenticated ==
    /\ AuthenticatedEmitted => (IsSome(access_token) /\ Unwrap(access_token) \in Tokens)
    /\ res = Some(Ok(Authenticated)) =>
           (cur.msg.kind = "Authenticate" /\ session.exchanges = 1 /\ net = {})

\* C14 witness: the first Authenticated event was sent, the cell holds a token.
C14_Witness ==
    /\ Len(hist.out) >= 1 /\ hist.out[1].ev = "Authenticated"
    /\ IsSome(access_token)

\* The poll being handled has got this response
PollAnswered(resp) ==
    /\ cur.msg.kind = "GetCurrentTrack" /\ rt_pc \in {"send", "panicked"}
    /\ hist.resp = Some(resp)

\* C15: get_current_track maps HTTP 204 to NoContentResponse and a decoded
\* body whose type is not "track" to NotATrack, returns Ok(snapshot) only for
\* a body of type "track", and reports neither of the two as a transport
\* error: ReqwestError is left to requests that got no response or a body
\* that does not decode.
C15_PollMapping ==
    \A resp \in PollResponses :
        PollAnswered(resp) =>
            /\ (resp.sent /\ resp.status = 204) => hist.poll = "NoContentResponse"
            /\ (resp.sent /\ resp.status # 204 /\ IsSome(resp.body)
                    /\ Unwrap(resp.body).currently_playing_type # "track")
                   => hist.poll = "NotATrack"
            /\ hist.poll = "Ok" =>
                   /\ resp.sent /\ resp.status # 204 /\ IsSome(resp.body)
                   /\ Unwrap(resp.body).currently_playing_type = "track"
                   /\ rt_pc = "send"
                   /\ res = Some(Ok(CurrentlyPlaying(Unwrap(resp.body))))
            /\ hist.poll = "ReqwestError" =>
                   (~resp.sent \/ (resp.status # 204 /\ ~IsSome(resp.body)))
            /\ hist.poll \in {"NoContentResponse", "NotATrack", "Ok", "ReqwestError"}

\* C16: get_current_track called while no access token is stored fails with
\* NotAuthenticated and issues no request to the provider.
C16_NotAuthenticated ==
    (cur.msg.kind = "GetCurrentTrack" /\ ~IsSome(access_token)
        /\ rt_pc # "get_current_track")
        => /\ hist.poll = "NotAuthenticated"
           /\ hist.resp = <<>>
           /\ net = {}

\* C16 witness: a GetCurrentTrack intent was handled on a client without a
\* token and came back as NotAuthenticated.
C16_Witness ==
    /\ cur.msg.kind = "GetCurrentTrack" /\ ~IsSome(access_token)
    /\ hist.poll = "NotAuthenticated" /\ net = {}

\* the intent being handled is a GetLyrics whose provider call and parsing
\* succeeded, so that store_in_cache was called for it
FetchSucceeded ==
    /\ cur.msg.kind = "GetLyrics"
    /\ IsSome(hist.store) /\ Unwrap(hist.store).n = cur.n

\* C17: a failure to write the cache entry after a successful fetch is not
\* surfaced: whatever the outcome of store_in_cache, the coordinator keeps
\* running and emits GotLyrics with the parsed timeline.
C17_WriteFailureSwallowed ==
    FetchSucceeded
        => /\ ~RtPanicked
           /\ rt_pc = "send"
           /\ res = Some(Ok(GotLyrics(SongWithLyrics(Unwrap(hist.store).lyrics,
                                                     cur.msg.request))))

\* a cache lookup for the key of the intent being handled has just returned
\* and nothing has been stored since
LookupJustDone ==
    /\ cur.msg.kind = "GetLyrics" /\ IsSome(hist.check)
    /\ \/ rt_pc = "lyrics_wait"
       \/ rt_pc = "send" /\ Unwrap(hist.check).result.ok

\* C18: a cache entry is never mutated by a lookup: after check_cache for
\* key K the meta file and the lyrics file of K hold what they held before
\* the lookup.
C18_LookupLeavesEntry ==
    LookupJustDone
        => cache[Unwrap(hist.check).key] = Unwrap(hist.check).entry

\* the timeline is sorted ascending by offset
SortedByOffset(lyrics) ==
    \A i \in 1..(Len(lyrics) - 1) : lyrics[i].time_ms <= lyrics[i + 1].time_ms

\* C19: find_current_index on a timeline sorted ascending by offset: an
\* empty timeline gives BeforeStart, elapsed before the first offset gives
\* BeforeStart, elapsed at or after the last offset gives AfterEnd, and
\* otherwise it gives Line(i) for the one i with
\* offset[i] <= elapsed < offset[i+1], so 0 <= i < len.
C19_Locate ==
    (lp.pc = "located" /\ SortedByOffset(lp.lines))
        => LET t == lp.lines
               n == Len(lp.lines)
               e == lp.elapsed
           IN  /\ n = 0 => lp.pos = BeforeStart
               /\ (n > 0 /\ e < t[1].time_ms) => lp.pos = BeforeStart
               /\ (n > 0 /\ e >= t[n].time_ms) => lp.pos = AfterEnd
               /\ (n > 0 /\ e >= t[1].time_ms /\ e < t[n].time_ms)
                     => /\ lp.pos.kind = "Line"
                        /\ lp.pos.i >= 0 /\ lp.pos.i < n - 1
                        /\ t[lp.pos.i + 1].time_ms <= e
                        /\ e < t[lp.pos.i + 2].time_ms
                        /\ \A j \in 0..(n - 2) :
                              (t[j + 1].time_ms <= e /\ e < t[j + 2].time_ms)
                                  => j = lp.pos.i
               /\ lp.pos.kind = "Line" => (lp.pos.i >= 0 /\ lp.pos.i < n)

\* C19 witness: a position inside a timeline that has two lines with the
\* same offset, found exactly at that offset
C19_Witness ==
    /\ lp.pc = "located" /\ Len(lp.lines) = 3
    /\ lp.lines[1].time_ms = lp.lines[2].time_ms
    /\ lp.elapsed = lp.lines[2].time_ms
    /\ lp.pos = Line(1)

\* the lines of a timeline that carry the offset ms, in order
WithOffset(lyrics, ms) == SelectSeq(lyrics, LAMBDA l : l.time_ms = ms)

\* C20: for every text and either value of strip_empty_lines the output of
\* parse_lrc is sorted ascending by offset, and the lines of equal offset
\* are in the order in which they appeared in the text.
C20_SortedStable ==
    (lp.pc \in {"parsed", "located"})
        => /\ SortedByOffset(lp.lines)
           /\ Len(lp.lines) = Len(lp.pushed)
           /\ \A i \in 1..Len(lp.pushed) :
                 WithOffset(lp.lines, lp.pushed[i].time_ms)
                     = WithOffset(lp.pushed, lp.pushed[i].time_ms)

\* C20 witness: a text parsed with strip_empty_lines whose lines were out
\* of order and hold two lines of the same offset
C20_Witness ==
    /\ lp.pc = "parsed" /\ lp.strip
    /\ lp.lines # lp.pushed
    /\ \E i, j \in 1..Len(lp.lines) :
         i < j /\ lp.lines[i].time_ms = lp.lines[j].time_ms
               /\ lp.lines[i].text # lp.lines[j].text

\* C21: for every tag mm:ss.cc or mm:ss:cc with non-negative integer fields
\* the parsed offset is minutes*60000 + seconds*1000 + cc*10 milliseconds,
\* and for a tag mm:ss it is minutes*60000 + seconds*1000.
C21_TagOffset ==
    (lp.pc = "tag_parsed" /\ lp.minutes >= 0 /\ lp.secs >= 0
        /\ lp.frac # -1)
        => lp.ms = lp.minutes * 60000 + lp.secs * 1000
                     + (IF lp.frac = NoField.val THEN 0 ELSE lp.frac * 10)

\* C21 witness: the tag 01:05.04 parsed to 65040
C21_Witness ==
    /\ lp.pc = "tag_parsed"
    /\ lp.tag = <<"0", "1", ":", "0", "5", ".", "0", "4">>
    /\ lp.ms = 65040

\* C29: a bracketed tag with a malformed numeric field (minutes, seconds or
\* fraction not a non-negative integer) is not a timestamp: parse_time_tag
\* returns None for it.
C29_MalformedIsMetadata ==
    (lp.pc = "tag_parsed"
        /\ (lp.minutes = -1 \/ lp.secs = -1 \/ lp.frac = -1))
        => lp.ms = -1

\* the lines of a timeline whose text is not empty, in order
WithText(lyrics) == SelectSeq(lyrics, LAMBDA l : l.text # <<>>)

\* C22: for every text, parse_lrc(text, true) is parse_lrc(text, false)
\* without the lines whose text after the tag is empty, and so never has
\* more lines.
C22_StripRemovesEmpty ==
    (lp.pc \in {"parsed", "located"} /\ lp.strip)
        => /\ lp.lines = WithText(lp.unstripped)
           /\ Len(lp.lines) <= Len(lp.unstripped)

\* C22 witness: a text parsed with strip_empty_lines that lost a line and
\* kept another
C22_Witness ==
    /\ lp.pc = "parsed" /\ lp.strip
    /\ lp.lines # <<>>
    /\ Len(lp.lines) < Len(lp.unstripped)

\* the LyricLine a line of the text stands for: the offset of its time tag
\* and its text, when it has a time tag after its leading metadata tags
LineOf(shape) ==
    IF shape.ts = -1 THEN <<>>
    ELSE <<[time_ms |-> shape.ts * 1000, text |-> shape.text]>>

RECURSIVE LinesOf(_)
LinesOf(shapes) ==
    IF shapes = <<>> THEN <<>>
    ELSE LineOf(Head(shapes)) \o LinesOf(Tail(shapes))

\* the same, a line with empty text standing for nothing when
\* strip_empty_lines is set
RECURSIVE LinesKept(_, _)
LinesKept(shapes, strip_empty_lines) ==
    IF shapes = <<>> THEN <<>>
    ELSE (IF strip_empty_lines /\ Head(shapes).text = <<>> THEN <<>>
          ELSE LineOf(Head(shapes)))
         \o LinesKept(Tail(shapes), strip_empty_lines)

\* C30 as stated: parse_lrc emits, line by line, one LyricLine exactly for
\* the lines that have a time tag after zero or more leading metadata tags,
\* with the offset of that tag and the trimmed remainder as text, and
\* nothing for the other lines.
C30_OnePerTimedLine ==
    (lp.pc \in {"parsed", "located"}) => lp.pushed = LinesOf(lp.shapes)

\* C30 amended: the same, except that with strip_empty_lines set a line
\* whose remainder is empty emits nothing.
C30_OnePerKeptLine ==
    (lp.pc \in {"parsed", "located"})
        => lp.pushed = LinesKept(lp.shapes, lp.strip)

\* C30 witness: a text with a metadata tag before a time tag, a line with a
\* blank after the tag and a line without any tag, parsed
C30_Witness ==
    /\ lp.pc = "parsed" /\ Len(lp.shapes) = 3
    /\ lp.shapes[1].metas = 1 /\ lp.shapes[1].ts # -1
    /\ lp.shapes[2].gap
    /\ lp.shapes[3].ts = -1
    /\ Len(lp.pushed) = 2

\* a request with all four fields: title, artist and album non-empty and a
\* duration that is not zero
Dispatchable(req) ==
    /\ req.track_name # "" /\ req.artist_name # "" /\ req.album_name # ""
    /\ req.duration_sec # 0

\* a current-track snapshot that can supply all four fields
CanSupply(response) ==
    /\ is_track(response)
    /\ ~get_artist_panics(response)
    /\ Dispatchable(from_spotify_response(response))

\* C23: every GetLyrics intent dispatched to the coordinator carries a
\* request whose title, artist and album are non-empty and whose duration
\* is not zero, and a snapshot that cannot supply all of them does not
\* crash the UI.
C23_Dispatchable ==
    /\ \A i \in 1..Len(hist.enq) :
          hist.enq[i].kind = "GetLyrics" => Dispatchable(hist.enq[i].request)
    /\ (IsSome(currently_playing) /\ ~CanSupply(Unwrap(currently_playing)))
          => Running

\* the number of GetCurrentTrack intents the UI has enqueued
PollsEnqueued ==
    Len(SelectSeq(hist.enq, LAMBDA m : m.kind = "GetCurrentTrack"))

\* the number of Authenticated events sent to the UI
AuthenticatedSent ==
    Len(SelectSeq(hist.out, LAMBDA o : o.ev = "Authenticated"))

\* C24: the elapsed time a frame uses to locate the active line is the
\* progress_ms of the most recently received snapshot plus the milliseconds
\* of wall clock since that snapshot was received; from one frame to the
\* next of the same snapshot it does not decrease; and drawing issues no
\* poll: GetCurrentTrack has been enqueued once per Authenticated event
\* handled, however many frames were drawn.
C24_ElapsedTime ==
    /\ (IsSome(shown.current_ms) /\ IsSome(shown.snapshot))
          => /\ Unwrap(shown.current_ms)
                    = Unwrap(shown.snapshot).progress_ms + (shown.at - shown.since)
             /\ IsSome(shown.prev_ms)
                    => Unwrap(shown.current_ms) >= Unwrap(shown.prev_ms)
    /\ PollsEnqueued <= AuthenticatedSent

\* C24 witness: two frames drawn from the same snapshot, one millisecond
\* apart, the snapshot having been received after the clock had advanced
C24_Witness ==
    /\ IsSome(shown.snapshot) /\ IsSome(shown.prev_ms)
    /\ shown.since > 0
    /\ Unwrap(shown.snapshot).progress_ms = 1
    /\ Unwrap(shown.current_ms) = Unwrap(shown.prev_ms) + 1

\* authenticate is past server.await
PastServerAwait == rt_pc \in {"read_content", "exchange", "exchange_wait"}

\* authenticate has issued, or is about to issue, the token exchange
ExchangeReached ==
    rt_pc \in {"exchange", "exchange_wait"} \/ session.exchanges > 0

\* C25: within one authenticate the order is: callback received and its
\* (code, state) delivered, shutdown signalled, listener terminated with its
\* connections drained, state checked against the CSRF token, token
\* exchange issued.  Each later stage is reached only with the earlier ones
\* done.
C25_ShutdownOrder ==
    /\ session.rx_shutdown
          => (session.reqs # <<>> /\ IsSome(session.rx_content))
    /\ session.listener \in {"draining", "closed"} => session.rx_shutdown
    /\ PastServerAwait
          => /\ session.listener = "closed"
             /\ session.rx_shutdown
             /\ \A i \in 1..Len(session.reqs) : session.reqs[i].pc = "done"
    /\ ExchangeReached
          => /\ session.listener = "closed"
             /\ IsSome(session.rx_content)
             /\ CallbackError(Unwrap(session.rx_content), session.csrf) = ""

\* C25 witness: the token exchange is in flight after two requests reached
\* /callback
C25_Witness ==
    /\ rt_pc = "exchange_wait" /\ Len(session.reqs) = 2
    /\ session.listener = "closed"

\* the (code, state) pair the first callback delivered, once authenticate
\* has returned for it
ReturnedFor(pair) ==
    /\ cur.msg.kind = "Authenticate" /\ rt_pc = "send"
    /\ session.rx_content = Some(pair)

\* C26: a first callback without code makes authenticate fail with
\* MissingCodeAuthError, also when the state is missing too; with a code and
\* without state it fails with MissingStateAuthError; in both cases no
\* token exchange is issued and the listener has been shut down.
C26_MissingParams ==
    \A code \in CodeParams, state \in StateParams :
        LET pair == [code |-> code, state |-> state]
        IN  /\ (session.rx_content = Some(pair)
                   /\ (~IsSome(code) \/ ~IsSome(state)))
                  => ~ExchangeReached
            /\ (ReturnedFor(pair) /\ ~IsSome(code))
                  => /\ res = Some(Err("MissingCodeAuthError"))
                     /\ session.listener = "closed"
            /\ (ReturnedFor(pair) /\ IsSome(code) /\ ~IsSome(state))
                  => /\ res = Some(Err("MissingStateAuthError"))
                     /\ session.listener = "closed"

\* C26 witness: authenticate returned MissingCodeAuthError for a callback
\* that carried neither code nor state
C26_Witness ==
    /\ ReturnedFor([code |-> <<>>, state |-> <<>>])
    /\ res = Some(Err("MissingCodeAuthError"))

\* the listener is up and no request has reached /callback
NoCallbackYet == session.listener # "none" /\ session.reqs = <<>>

\* C27: as long as no request has reached /callback after the browser was
\* opened and the listener bound, authenticate has not returned: the
\* coordinator is still inside that Authenticate intent, no intent queued
\* behind it has been started and no event has been emitted for it.
C27_BlocksWithoutCallback ==
    NoCallbackYet
        => /\ rt_pc = "serve" /\ session.listener = "serving"
           /\ cur.msg.kind = "Authenticate"
           /\ res = <<>>
           /\ hist.started = cur.n
           /\ Len(hist.out) = cur.n - 1

\* C27 witness: the coordinator waits for a callback while another intent
\* is queued behind the Authenticate being handled
C27_Witness ==
    /\ NoCallbackYet /\ rt_pc = "serve"
    /\ rt_queue # <<>>

\* C28: with caching disabled every GetLyrics intent calls the lyrics
\* provider and never reads the cache, even when an entry for its key
\* exists: no lookup is made, the result emitted is the provider's answer,
\* and a completed write replaces the stored entry by the fresh one.
C28_CachingDisabled ==
    (~settings.caching_enabled /\ cur.msg.kind = "GetLyrics")
        => LET k == get_track_identifier(cur.msg.request)
           IN  /\ hist.check = <<>>
               /\ rt_pc = "lyrics_wait"
                     => [call |-> "lrclib", n |-> cur.n] \in net
               /\ rt_pc = "send"
                     => \/ res = Some(Ok(DisplayError("Failed to fetch lyrics")))
                        \/ /\ FetchSucceeded
                           /\ res = Some(Ok(GotLyrics(SongWithLyrics(
                                  Unwrap(hist.store).lyrics, cur.msg.request))))
               /\ (FetchSucceeded /\ Unwrap(hist.store).result = "Ok")
                     => cache[k].lrc = FileOf(ToJson(Unwrap(hist.store).lyrics))

\* C28 witness: with caching disabled the provider is being called for a
\* key that already has a stored entry
C28_Witness ==
    /\ ~settings.caching_enabled /\ cur.msg.kind = "GetLyrics"
    /\ rt_pc = "lyrics_wait"
    /\ cache[get_track_identifier(cur.msg.request)].lrc.exists
    /\ IsSome(cache[get_track_identifier(cur.msg.request)].lrc.json)

\* The coordinator is done with intent n: it took the intent from the queue
\* and its handler has returned with the event sent, or has panicked.
HandlingEnded(n) ==
    /\ n \in 1..hist.started
    /\ cur.n = n => RtPanicked

\* The positions of the events emitted for intent n
EventsOf(n) == {i \in 1..Len(hist.out) : hist.out[i].n = n}

\* C31: the coordinator emits exactly one outbound event per processed
\* intent, of a kind that answers the intent (Authenticated, CurrentlyPlaying
\* or GotLyrics, else DisplayError): no intent it is done with has zero or
\* two events, and the events emitted are as many as the intents it is done
\* with.
C31_OneEventPerIntent ==
    /\ \A n \in 1..hist.started :
           /\ Cardinality(EventsOf(n)) <= 1
           /\ HandlingEnded(n) =>
                  \E i \in EventsOf(n) :
                      hist.out[i].ev \in ResultKinds(hist.out[i].msg.kind)
    /\ Len(hist.out) = Cardinality({n \in 1..hist.started : HandlingEnded(n)})

\* The positions of the intents of a kind the UI has enqueued
EnqueuedOf(kind) == {i \in 1..Len(hist.enq) : hist.enq[i].kind = kind}

\* The positions of the events of a kind the UI has taken from its channel:
\* the events sent that are no longer in the channel
ReceivedOf(kind) ==
    {i \in 1..(Len(hist.out) - Len(ui_queue)) : hist.out[i].ev = kind}

\* C32: the UI enqueues GetCurrentTrack only in reaction to an Authenticated
\* event and GetLyrics only in reaction to a CurrentlyPlaying event (never
\* more of either than it has received such events); whenever the
\* coordinator handles a GetCurrentTrack intent the token cell holds a token;
\* and is_auth is true exactly from the first Authenticated event received
\* on: nothing else sets it and nothing resets it.
C32_PollOnlyAfterAuthenticated ==
    /\ Cardinality(EnqueuedOf("GetCurrentTrack"))
           <= Cardinality(ReceivedOf("Authenticated"))
    /\ Cardinality(EnqueuedOf("GetLyrics"))
           <= Cardinality(ReceivedOf("CurrentlyPlaying"))
    /\ Running =>
           /\ Cardinality(EnqueuedOf("GetCurrentTrack"))
                  = Cardinality(ReceivedOf("Authenticated"))
           /\ Cardinality(EnqueuedOf("GetLyrics"))
                  = Cardinality(ReceivedOf("CurrentlyPlaying"))
    /\ cur.msg.kind = "GetCurrentTrack" =>
           (IsSome(access_token) /\ Unwrap(access_token) \in Tokens)
    /\ is_auth <=> ReceivedOf("Authenticated") # {}

\* C32 witness: the coordinator handles the second poll, each poll enqueued
\* on an Authenticated event, after the UI answered the snapshot of the
\* first poll with a GetLyrics intent.
C32_Witness ==
    /\ Running /\ is_auth
    /\ cur.msg.kind = "GetCurrentTrack" /\ IsSome(access_token)
    /\ Cardinality(EnqueuedOf("GetCurrentTrack")) = 2
    /\ EnqueuedOf("GetLyrics") # {}

\* SpotifyClient::authenticate has returned an error to the coordinator
AuthenticateFailed ==
    /\ cur.msg.kind = "Authenticate" /\ rt_pc = "send"
    /\ IsSome(res) /\ ~Unwrap(res).ok

\* C33: an authenticate call that fails leaves the token cell unchanged: the
\* cell changes only in the step that ends a successful token exchange, which
\* writes the token returned; the step in which authenticate returns an
\* error (missing credentials, browser, code or state missing, CSRF mismatch,
\* token request) does not touch it.
C33_FailedAuthKeepsToken ==
    [][/\ access_token' # access_token =>
              /\ cur.msg.kind = "Authenticate" /\ rt_pc = "exchange_wait"
              /\ res' = Some(Ok(Authenticated))
              /\ IsSome(access_token') /\ Unwrap(access_token') \in Tokens
       /\ (~AuthenticateFailed /\ AuthenticateFailed') =>
              access_token' = access_token]_vars

\* C33 witness: a second authenticate call has failed at the token request
\* while the cell holds the token of the first.
C33_Witness ==
    /\ AuthenticateFailed /\ res = Some(Err("TokenRequest"))
    /\ cur.n >= 2 /\ IsSome(access_token)

\* C15 witness: a poll answered with 204 came back as NoContentResponse.
C15_Witness ==
    /\ PollAnswered([sent |-> TRUE, status |-> 204, body |-> <<>>])
    /\ hist.poll = "NoContentResponse"

====
